---- MODULE Spec2Model ----
(***************************************************************************)
(* Rano text editor (src/src/main.rs): the Editor struct, its edit,        *)
(* navigation and search methods, and the key dispatch of main's loop.     *)
(*                                                                         *)
(* A String is modelled as the sequence of its UTF-8 bytes, because the    *)
(* code indexes lines by byte offset (cursor_x) while it inserts and       *)
(* removes whole chars.  Rust indices are 0-based; sequence positions are  *)
(* 1-based, so content[i] of the code is content[i + 1] here.              *)
(***************************************************************************)
EXTENDS Integers, Sequences, FiniteSets, TLC

\* ------------------------------------------------------------------ bounds
MaxLines == 3        \* most lines a Document holds in the model
MaxBytes == 3        \* most bytes the lines of a Document hold together
IoMaxLines == 1      \* most lines a Document holds where Save is explored
IoMaxBytes == 1      \* most bytes its lines hold together there

\* ------------------------------------------------------------- input sets
\* The chars a key event can carry, each as its UTF-8 bytes: 'a' is one
\* byte, U+00E9 is the two bytes C3 A9.
Chars == { <<"a">>, <<"C3", "A9">> }

\* Non-empty search terms typed into the prompt.
Queries == { <<"a">>, <<"C3", "A9">> }

\* Key codes that main hands to move_cursor; "Esc" stands for any other key.
Arrows == { "Up", "Down", "Left", "Right" }
Codes == Arrows \cup { "Esc" }

\* Terminal heights; main passes height - 2 as visible_height.
Heights == { 3, 4 }

\* The terminal height where Save and exit are explored.
IoHeights == { 3 }

\* File names: the one main opens, and one typed into the "Save as:" prompt.
Names == { "untitled.txt", "new.txt" }

\* Answers typed into the "Save before exit? (y/n)" prompt.
Answers == { "y", "Y", "n", "" }

\* save.trim().eq_ignore_ascii_case("y") with any answer but "n" taken as yes.
IsYesUnlessNo(answer) == answer # "n"

\* save.trim().eq_ignore_ascii_case("y")
IsYes(answer) == answer \in { "y", "Y" }

\* The user answered the prompt with y or Y and confirmed it with Enter.
Affirmative(typed, end) == end = "Enter" /\ (typed = "y" \/ typed = "Y")

\* How a prompt ends: the key that ends it (Enter or Esc), or an Err from
\* term.draw or event::read.
PromptEnds == { "Enter", "Esc", "Err" }

\* What stands in a prompt's input when it ends, per prompt: a file name or
\* nothing for "Save as:", a search term or nothing for "Search for:".
TypedNames == Names \cup { "" }
TypedQueries == Queries \cup { <<>> }

\* ----------------------------------------------------------------- Option
None == <<>>
Some(v) == <<v>>

\* untitled.txt at startup: absent, or holding the bytes "a\n".
InitFiles == { None, Some(<<"a", "LF">>) }

\* untitled.txt at startup where a file with carriage returns is loaded:
\* absent, or holding the bytes "\r\r\n".
CrInitFiles == { None, Some(<<"CR", "CR", "LF">>) }

\* ------------------------------------------------------- std::string::String
Min(a, b) == IF a < b THEN a ELSE b

\* A UTF-8 continuation byte (10xxxxxx).
IsContinuation(b) == b = "A9"

\* str::is_char_boundary
is_char_boundary(s, idx) ==
    \/ idx = 0
    \/ idx = Len(s)
    \/ (idx < Len(s) /\ ~IsContinuation(s[idx + 1]))

\* char::len_utf8 of the char starting at byte idx of s
len_utf8_at(s, idx) ==
    IF idx + 1 < Len(s) /\ IsContinuation(s[idx + 2]) THEN 2 ELSE 1

\* String::insert panics unless idx is a char boundary of s.
StringInsertOk(s, idx) == is_char_boundary(s, idx)
StringInsert(s, idx, ch) ==
    SubSeq(s, 1, idx) \o ch \o SubSeq(s, idx + 1, Len(s))

\* String::remove as a removal of the single byte at idx.
StringRemoveByte(s, idx) ==
    SubSeq(s, 1, idx) \o SubSeq(s, idx + 2, Len(s))

\* String::remove panics when idx >= len or idx is not a char boundary; it
\* removes the whole char starting at idx.
StringRemoveOk(s, idx) == idx < Len(s) /\ is_char_boundary(s, idx)
StringRemove(s, idx) ==
    SubSeq(s, 1, idx) \o SubSeq(s, idx + len_utf8_at(s, idx) + 1, Len(s))

\* String::split_off panics unless at is a char boundary of s.
SplitOffOk(s, at) == is_char_boundary(s, at)
SplitLeft(s, at) == SubSeq(s, 1, at)
SplitRight(s, at) == SubSeq(s, at + 1, Len(s))

\* The byte offsets at which pat occurs in s.
MatchOffsets(s, pat) ==
    { i \in 0..(Len(s) - Len(pat)) : SubSeq(s, i + 1, i + Len(pat)) = pat }

\* str::contains
contains(s, pat) == MatchOffsets(s, pat) # {}

SetMin(S) == CHOOSE x \in S : \A y \in S : x <= y

SetMax(S) == CHOOSE x \in S : \A y \in S : x >= y

\* str::rfind(..).unwrap_or(0): the last occurrence in place of the first.
rfind_or_0(s, pat) ==
    IF MatchOffsets(s, pat) = {} THEN 0 ELSE SetMax(MatchOffsets(s, pat))

\* str::find(..).unwrap_or(0)
find_or_0(s, pat) ==
    IF MatchOffsets(s, pat) = {} THEN 0 ELSE SetMin(MatchOffsets(s, pat))

\* ------------------------------------------------------------ Vec<String>
\* Vec::remove(index)
VecRemove(v, index) == SubSeq(v, 1, index) \o SubSeq(v, index + 2, Len(v))
\* Vec::insert(index, element)
VecInsert(v, index, el) ==
    SubSeq(v, 1, index) \o <<el>> \o SubSeq(v, index + 1, Len(v))

\* ------------------------------------------------------------- file bytes
\* str::lines of the bytes from position i on, cur being the line read so
\* far: lines end at LF, a CR right before the LF is dropped with it, and
\* a last line without LF counts when it is not empty.
RECURSIVE LinesFrom(_, _, _)
LinesFrom(bytes, i, cur) ==
    IF i > Len(bytes)
    THEN IF cur = <<>> THEN <<>> ELSE <<cur>>
    ELSE IF bytes[i] = "LF"
    THEN LET line == IF cur # <<>> /\ cur[Len(cur)] = "CR"
                     THEN SubSeq(cur, 1, Len(cur) - 1)
                     ELSE cur
         IN <<line>> \o LinesFrom(bytes, i + 1, <<>>)
    ELSE LinesFrom(bytes, i + 1, Append(cur, bytes[i]))

\* fs::read_to_string(&filename).unwrap_or_default().lines().collect()
read_lines(file) ==
    IF file = None THEN <<>> ELSE LinesFrom(file[1], 1, <<>>)

\* The lines joined by LF, with no LF after the last one.
RECURSIVE write_lines_joined(_)
write_lines_joined(content) ==
    IF content = <<>>
    THEN <<>>
    ELSE IF Len(content) = 1
    THEN Head(content)
    ELSE Head(content) \o <<"LF">> \o write_lines_joined(Tail(content))

\* for line in &self.content { writeln!(file, "{}", line)?; }
RECURSIVE write_lines(_)
write_lines(content) ==
    IF content = <<>>
    THEN <<>>
    ELSE Head(content) \o <<"LF">> \o write_lines(Tail(content))

\* ------------------------------------------------------------------ state
VARIABLES
    editor,        \* the Editor struct
    term_height,   \* terminal.size().height
    terminal,      \* the terminal's mode: raw mode and alternate screen on/off
    file,          \* the file last read by open or created by save: its
                   \* name, and None (absent) or Some(bytes)
    pc,            \* where main is: "loop", or ended: "exited" (Ok),
                   \* "io_error" (an Err returned by ?), "panicked"
    last,          \* the last operation main dispatched, with its argument
    pair,          \* an insert and the Backspace right after it, with the
                   \* Editor as it was before the insert
    persisted      \* the lines last loaded from or successfully saved

vars == <<editor, term_height, terminal, file, pc, last, pair, persisted>>

\* (terminal.size()?.height - 2) as usize, the visible_height main passes
\* to move_cursor.
VisibleHeight == term_height - 2

\* main's draw closure: layout[0].height, the rows left above the one-row
\* status bar by the split into [Min(1), Length(1)].
layout0_height == term_height - 1

\* (layout[0].height - 2) as usize
visible_lines == layout0_height - 2

\* The rows of content_to_show: content.iter().skip(scroll_y).take(visible_lines)
content_to_show(e) ==
    { y \in 0..(Len(e.content) - 1) :
        e.scroll_y <= y /\ y < e.scroll_y + visible_lines }

\* (editor.cursor_y - editor.scroll_y), the row offset at which draw places
\* the cursor; below 0 the usize subtraction underflows.
cursor_row_offset(e) == e.cursor_y - e.scroll_y

\* An operation's outcome: the Editor it leaves, or a panic (the Editor is
\* then kept as it was when the operation began; the process is gone).
Done(e) == [panic |-> FALSE, ed |-> e]
Abort(e) == [panic |-> TRUE, ed |-> e]

\* Editor::open
open(filename, loaded) ==
    [ filename |-> filename,
      content |-> loaded,
      cursor_x |-> 0,
      cursor_y |-> 0,
      scroll_y |-> 0,
      modified |-> FALSE,
      search_query |-> None ]

\* Editor::save with modified cleared before the file is created.
save_clears_first(e, new_name, f, io, written) ==
    LET e1 == [(IF new_name # None THEN [e EXCEPT !.filename = new_name[1]] ELSE e)
                  EXCEPT !.modified = FALSE]
    IN  CASE io = "create_fails" ->
               [err |-> TRUE, ed |-> e1, file |-> f]
          [] io = "write_fails" ->
               [err |-> TRUE, ed |-> e1,
                file |-> [name |-> e1.filename,
                          bytes |-> Some(write_lines(SubSeq(e1.content, 1, written)))]]
          [] OTHER ->
               [err |-> FALSE, ed |-> e1,
                file |-> [name |-> e1.filename,
                          bytes |-> Some(write_lines(e1.content))]]

\* Editor::save with modified cleared once the file is created, before the
\* lines are written.
save_clears_on_create(e, new_name, f, io, written) ==
    LET e1 == IF new_name # None THEN [e EXCEPT !.filename = new_name[1]] ELSE e
    IN  CASE io = "create_fails" ->
               [err |-> TRUE, ed |-> e1, file |-> f]
          [] io = "write_fails" ->
               [err |-> TRUE, ed |-> [e1 EXCEPT !.modified = FALSE],
                file |-> [name |-> e1.filename,
                          bytes |-> Some(write_lines(SubSeq(e1.content, 1, written)))]]
          [] OTHER ->
               [err |-> FALSE, ed |-> [e1 EXCEPT !.modified = FALSE],
                file |-> [name |-> e1.filename,
                          bytes |-> Some(write_lines(e1.content))]]

\* Editor::save.  io is what the file system does: "create_fails" (File::create
\* returns Err), "write_fails" (a writeln! returns Err after `written` lines),
\* or "ok".  The result holds the Editor, the file and whether Err came back.
save(e, new_name, f, io, written) ==
    LET e1 == IF new_name # None THEN [e EXCEPT !.filename = new_name[1]] ELSE e
    IN  CASE io = "create_fails" ->
               [err |-> TRUE, ed |-> e1, file |-> f]
          [] io = "write_fails" ->
               [err |-> TRUE, ed |-> e1,
                file |-> [name |-> e1.filename,
                          bytes |-> Some(write_lines(SubSeq(e1.content, 1, written)))]]
          [] OTHER ->
               [err |-> FALSE, ed |-> [e1 EXCEPT !.modified = FALSE],
                file |-> [name |-> e1.filename,
                          bytes |-> Some(write_lines(e1.content))]]

\* Editor::current_line().map(|s| s.len()).unwrap_or(0)
current_line_len(e) ==
    IF e.cursor_y < Len(e.content) THEN Len(e.content[e.cursor_y + 1]) ELSE 0

\* Editor::insert_char
insert_char(e, ch) ==
    LET content1 == IF e.cursor_y >= Len(e.content)
                    THEN Append(e.content, <<>>)
                    ELSE e.content
    IN  IF e.cursor_y >= Len(content1)
        THEN Abort(e)
        ELSE IF ~StringInsertOk(content1[e.cursor_y + 1], e.cursor_x)
        THEN Abort(e)
        ELSE Done([e EXCEPT
                 !.content = [content1 EXCEPT ![e.cursor_y + 1] =
                                 StringInsert(@, e.cursor_x, ch)],
                 !.cursor_x = e.cursor_x + 1,
                 !.modified = TRUE])

\* Editor::insert_newline
insert_newline(e) ==
    IF e.cursor_y >= Len(e.content)
    THEN Done([e EXCEPT !.content = Append(e.content, <<>>),
                        !.cursor_y = e.cursor_y + 1,
                        !.cursor_x = 0,
                        !.modified = TRUE])
    ELSE IF ~SplitOffOk(e.content[e.cursor_y + 1], e.cursor_x)
    THEN Abort(e)
    ELSE LET line == e.content[e.cursor_y + 1]
             rest == SplitRight(line, e.cursor_x)
             kept == [e.content EXCEPT ![e.cursor_y + 1] =
                          SplitLeft(line, e.cursor_x)]
         IN Done([e EXCEPT !.content = VecInsert(kept, e.cursor_y + 1, rest),
                           !.cursor_y = e.cursor_y + 1,
                           !.cursor_x = 0,
                           !.modified = TRUE])

\* Editor::delete_char
delete_char(e) ==
    IF e.cursor_y < Len(e.content) /\ e.cursor_x > 0
    THEN IF ~StringRemoveOk(e.content[e.cursor_y + 1], e.cursor_x - 1)
         THEN Abort(e)
         ELSE Done([e EXCEPT !.content[e.cursor_y + 1] =
                                 StringRemove(@, e.cursor_x - 1),
                             !.cursor_x = e.cursor_x - 1,
                             !.modified = TRUE])
    ELSE IF e.cursor_y > 0
    THEN IF e.cursor_y >= Len(e.content)
         THEN Abort(e)
         ELSE LET current == e.content[e.cursor_y + 1]
                  removed == VecRemove(e.content, e.cursor_y)
                  y == e.cursor_y - 1
              IN Done([e EXCEPT !.content = [removed EXCEPT ![y + 1] =
                                                 @ \o current],
                                !.cursor_y = y,
                                !.cursor_x = Len(removed[y + 1]),
                                !.modified = TRUE])
    ELSE Done(e)

\* Editor::move_cursor with Down scrolling one row too late.
move_cursor_scrolls_late(e, code, visible_height) ==
    LET len == current_line_len(e)
    IN  CASE code = "Up" ->
               IF e.cursor_y > 0
               THEN LET y == e.cursor_y - 1
                    IN [e EXCEPT !.cursor_y = y,
                                 !.scroll_y = IF y < e.scroll_y
                                              THEN e.scroll_y - 1
                                              ELSE e.scroll_y,
                                 !.cursor_x = Min(e.cursor_x, len)]
               ELSE e
          [] code = "Down" ->
               IF e.cursor_y + 1 < Len(e.content)
               THEN LET y == e.cursor_y + 1
                    IN [e EXCEPT !.cursor_y = y,
                                 !.scroll_y = IF y > e.scroll_y + visible_height
                                              THEN e.scroll_y + 1
                                              ELSE e.scroll_y,
                                 !.cursor_x = Min(e.cursor_x, len)]
               ELSE e
          [] code = "Left" ->
               IF e.cursor_x > 0
               THEN [e EXCEPT !.cursor_x = e.cursor_x - 1]
               ELSE IF e.cursor_y > 0
               THEN [e EXCEPT !.cursor_y = e.cursor_y - 1, !.cursor_x = len]
               ELSE e
          [] code = "Right" ->
               IF e.cursor_x < len
               THEN [e EXCEPT !.cursor_x = e.cursor_x + 1]
               ELSE IF e.cursor_y + 1 < Len(e.content)
               THEN [e EXCEPT !.cursor_y = e.cursor_y + 1, !.cursor_x = 0]
               ELSE e
          [] OTHER -> e

\* Editor::move_cursor; len is read once, before the cursor moves.
move_cursor(e, code, visible_height) ==
    LET len == current_line_len(e)
    IN  CASE code = "Up" ->
               IF e.cursor_y > 0
               THEN LET y == e.cursor_y - 1
                    IN [e EXCEPT !.cursor_y = y,
                                 !.scroll_y = IF y < e.scroll_y
                                              THEN e.scroll_y - 1
                                              ELSE e.scroll_y,
                                 !.cursor_x = Min(e.cursor_x, len)]
               ELSE e
          [] code = "Down" ->
               IF e.cursor_y + 1 < Len(e.content)
               THEN LET y == e.cursor_y + 1
                    IN [e EXCEPT !.cursor_y = y,
                                 !.scroll_y = IF y >= e.scroll_y + visible_height
                                              THEN e.scroll_y + 1
                                              ELSE e.scroll_y,
                                 !.cursor_x = Min(e.cursor_x, len)]
               ELSE e
          [] code = "Left" ->
               IF e.cursor_x > 0
               THEN [e EXCEPT !.cursor_x = e.cursor_x - 1]
               ELSE IF e.cursor_y > 0
               THEN [e EXCEPT !.cursor_y = e.cursor_y - 1, !.cursor_x = len]
               ELSE e
          [] code = "Right" ->
               IF e.cursor_x < len
               THEN [e EXCEPT !.cursor_x = e.cursor_x + 1]
               ELSE IF e.cursor_y + 1 < Len(e.content)
               THEN [e EXCEPT !.cursor_y = e.cursor_y + 1, !.cursor_x = 0]
               ELSE e
          [] OTHER -> e

\* The indices of the lines that contain query.
MatchingLines(content, query) ==
    { y \in 0..(Len(content) - 1) : contains(content[y + 1], query) }

\* Editor::search with the cursor sent to the top when nothing matches.
search_resets(e, query) ==
    LET e1 == [e EXCEPT !.search_query = Some(query)]
    IN  IF MatchingLines(e.content, query) # {}
        THEN LET y == SetMin(MatchingLines(e.content, query))
             IN [e1 EXCEPT !.cursor_y = y,
                           !.cursor_x = find_or_0(e.content[y + 1], query)]
        ELSE [e1 EXCEPT !.cursor_y = 0, !.cursor_x = 0]

\* Editor::search
search(e, query) ==
    LET e1 == [e EXCEPT !.search_query = Some(query)]
    IN  IF MatchingLines(e.content, query) # {}
        THEN LET y == SetMin(MatchingLines(e.content, query))
             IN [e1 EXCEPT !.cursor_y = y,
                           !.cursor_x = find_or_0(e.content[y + 1], query)]
        ELSE e1

\* ---------------------------------------------------------------- actions
\* The model's bounds on the Document.
RECURSIVE TotalBytes(_)
TotalBytes(content) ==
    IF content = <<>> THEN 0 ELSE Len(Head(content)) + TotalBytes(Tail(content))

WithinBounds(e) ==
    /\ Len(e.content) <= MaxLines
    /\ TotalBytes(e.content) <= MaxBytes

NoPair == [stage |-> 0]

\* enable_raw_mode and EnterAlternateScreen done, and both undone.
RawTerminal == [raw_mode |-> TRUE, alternate_screen |-> TRUE]
RestoredTerminal == [raw_mode |-> FALSE, alternate_screen |-> FALSE]

\* main up to the loop: the terminal, its height one of heights, is set up
\* and untitled.txt, one of files, is opened.
InitFrom(files, heights) ==
    /\ \E bytes \in files : file = [name |-> "untitled.txt", bytes |-> bytes]
    /\ editor = open(file.name, read_lines(file.bytes))
    /\ persisted = editor.content
    /\ term_height \in heights
    /\ terminal = RawTerminal
    /\ pc = "loop"
    /\ last = [op |-> "open"]
    /\ pair = NoPair

Init == InitFrom(InitFiles, Heights)

InitIO == InitFrom(InitFiles, IoHeights)

InitCr == InitFrom(CrInitFiles, IoHeights)

\* main: (KeyCode::Char(c), _) => editor.insert_char(c)
InsertChar(ch) ==
    /\ pc = "loop"
    /\ LET r == insert_char(editor, ch)
       IN /\ r.panic \/ WithinBounds(r.ed)
          /\ editor' = r.ed
          /\ pc' = IF r.panic THEN "panicked" ELSE "loop"
    /\ last' = [op |-> "InsertChar", ch |-> ch]
    /\ pair' = [stage |-> 1, op |-> "InsertChar", before |-> editor]
    /\ UNCHANGED <<term_height, terminal, file, persisted>>

\* main: (KeyCode::Enter, _) => editor.insert_newline()
InsertNewline ==
    /\ pc = "loop"
    /\ LET r == insert_newline(editor)
       IN /\ r.panic \/ WithinBounds(r.ed)
          /\ editor' = r.ed
          /\ pc' = IF r.panic THEN "panicked" ELSE "loop"
    /\ last' = [op |-> "InsertNewline"]
    /\ pair' = [stage |-> 1, op |-> "InsertNewline", before |-> editor]
    /\ UNCHANGED <<term_height, terminal, file, persisted>>

\* main: (KeyCode::Backspace, _) => editor.delete_char()
DeleteChar ==
    /\ pc = "loop"
    /\ LET r == delete_char(editor)
       IN /\ r.panic \/ WithinBounds(r.ed)
          /\ editor' = r.ed
          /\ pc' = IF r.panic THEN "panicked" ELSE "loop"
    /\ last' = [op |-> "DeleteChar"]
    /\ pair' = IF pair.stage = 1 THEN [pair EXCEPT !.stage = 2] ELSE NoPair
    /\ UNCHANGED <<term_height, terminal, file, persisted>>

\* main: (kc, _) => editor.move_cursor(kc, (terminal.size()?.height - 2) as usize)
MoveCursor(code) ==
    /\ pc = "loop"
    /\ editor' = move_cursor(editor, code, VisibleHeight)
    /\ last' = [op |-> "MoveCursor", code |-> code]
    /\ pair' = NoPair
    /\ UNCHANGED <<term_height, terminal, file, pc, persisted>>

\* main: Ctrl+W with a non-empty answer to the prompt => editor.search(query)
Search(query) ==
    /\ pc = "loop"
    /\ editor' = search(editor, query)
    /\ last' = [op |-> "Search", query |-> query]
    /\ pair' = NoPair
    /\ UNCHANGED <<term_height, terminal, file, pc, persisted>>

\* What the file system may do to a save of e: writing can only fail at a
\* line, so "write_fails" needs a line to write.
IoOutcomes(e) ==
    { [io |-> "ok", written |-> Len(e.content)],
      [io |-> "create_fails", written |-> 0] }
    \cup { [io |-> "write_fails", written |-> k] : k \in 0..(Len(e.content) - 1) }

\* prompt_input with Esc ending the loop as Enter does.
prompt_input_esc_breaks(typed, end, blank) ==
    CASE end = "Enter" -> [err |-> FALSE, input |-> typed]
      [] end = "Esc" -> [err |-> FALSE, input |-> typed]
      [] OTHER -> [err |-> TRUE, input |-> blank]

\* prompt_input, from the moment its loop ends: typed is what the Char and
\* Backspace keys read so far left in `input`, blank is String::new().  Enter
\* returns Ok(input), Esc returns Ok(String::new()), and an Err of term.draw
\* or event::read is returned by `?`.
prompt_input(typed, end, blank) ==
    CASE end = "Enter" -> [err |-> FALSE, input |-> typed]
      [] end = "Esc" -> [err |-> FALSE, input |-> blank]
      [] OTHER -> [err |-> TRUE, input |-> blank]

\* main: Ctrl+O: new_name = prompt_input("Save as:")?; when it is not empty,
\* editor.save(Some(new_name))?
CtrlO(typed, end) ==
    /\ pc = "loop"
    /\ LET p == prompt_input(typed, end, "")
       IN IF p.err
          THEN /\ pc' = "io_error"
               /\ last' = [op |-> "PromptError"]
               /\ UNCHANGED <<editor, file, persisted>>
          ELSE IF p.input # ""
          THEN \E o \in IoOutcomes(editor) :
                 LET r == save(editor, Some(p.input), file, o.io, o.written)
                 IN /\ editor' = r.ed
                    /\ file' = r.file
                    /\ pc' = IF r.err THEN "io_error" ELSE "loop"
                    /\ persisted' = IF r.err THEN persisted ELSE r.ed.content
                    /\ last' = [op |-> "Save", err |-> r.err, key |-> "CtrlO",
                                end |-> end, new_name |-> Some(p.input)]
          ELSE /\ last' = [op |-> "Prompt", key |-> "CtrlO", end |-> end]
               /\ UNCHANGED <<editor, file, pc, persisted>>
    /\ pair' = NoPair
    /\ UNCHANGED <<term_height, terminal>>

\* main: Ctrl+W: query = prompt_input("Search for:")?; when it is not empty,
\* editor.search(query)
CtrlW(typed, end) ==
    /\ pc = "loop"
    /\ LET p == prompt_input(typed, end, <<>>)
       IN IF p.err
          THEN /\ pc' = "io_error"
               /\ last' = [op |-> "PromptError"]
               /\ UNCHANGED editor
          ELSE IF p.input # <<>>
          THEN /\ editor' = search(editor, p.input)
               /\ last' = [op |-> "Search", query |-> p.input, key |-> "CtrlW",
                           end |-> end]
               /\ UNCHANGED pc
          ELSE /\ last' = [op |-> "Prompt", key |-> "CtrlW", end |-> end]
               /\ UNCHANGED <<editor, pc>>
    /\ pair' = NoPair
    /\ UNCHANGED <<term_height, terminal, file, persisted>>

\* main: Ctrl+X: when modified, save = prompt_input("... (y/n)")?, and on
\* "y" editor.save(None)?; then break, after which main restores the
\* terminal and returns Ok.
CtrlX ==
    /\ pc = "loop"
    /\ IF ~editor.modified
       THEN /\ pc' = "exited"
            /\ terminal' = RestoredTerminal
            /\ last' = [op |-> "Exit", key |-> "CtrlX", prompted |-> FALSE]
            /\ UNCHANGED <<editor, file, persisted>>
       ELSE \E typed \in Answers, end \in PromptEnds :
            LET p == prompt_input(typed, end, "")
            IN IF p.err
               THEN /\ pc' = "io_error"
                    /\ last' = [op |-> "PromptError"]
                    /\ UNCHANGED <<editor, terminal, file, persisted>>
               ELSE IF IsYes(p.input)
               THEN \E o \in IoOutcomes(editor) :
                      LET r == save(editor, None, file, o.io, o.written)
                      IN /\ editor' = r.ed
                         /\ file' = r.file
                         /\ pc' = IF r.err THEN "io_error" ELSE "exited"
                         /\ terminal' = IF r.err THEN terminal
                                        ELSE RestoredTerminal
                         /\ persisted' = IF r.err THEN persisted
                                         ELSE r.ed.content
                         /\ last' = [op |-> "Save", err |-> r.err,
                                     key |-> "CtrlX", prompted |-> TRUE,
                                     yes |-> Affirmative(typed, end),
                                     new_name |-> None]
               ELSE /\ pc' = "exited"
                    /\ terminal' = RestoredTerminal
                    /\ last' = [op |-> "Exit", key |-> "CtrlX",
                                prompted |-> TRUE,
                                yes |-> Affirmative(typed, end)]
                    /\ UNCHANGED <<editor, file, persisted>>
    /\ pair' = NoPair
    /\ UNCHANGED term_height

\* main's loop: terminal.draw, event::poll, event::read or terminal.size
\* returns Err, and `?` returns it from main.
TerminalError ==
    /\ pc = "loop"
    /\ pc' = "io_error"
    /\ last' = [op |-> "TerminalError"]
    /\ pair' = NoPair
    /\ UNCHANGED <<editor, term_height, terminal, file, persisted>>

\* The editing, navigation and search keys.
EditKeys ==
    \/ \E ch \in Chars : InsertChar(ch)
    \/ InsertNewline
    \/ DeleteChar
    \/ \E code \in Codes : MoveCursor(code)
    \/ \E query \in Queries : Search(query)

Next == EditKeys

\* The Editor's methods under the edit keys alone.
Spec == Init /\ [][Next]_vars

\* The smaller Documents explored together with Save and exit.
IoBounds(e) ==
    /\ Len(e.content) <= IoMaxLines
    /\ TotalBytes(e.content) <= IoMaxBytes

\* The step ends in a panic or keeps the Document within the smaller bounds.
IoKept == pc' = "panicked" \/ IoBounds(editor')

NextIO ==
    \/ \E ch \in Chars : InsertChar(ch) /\ IoKept
    \/ InsertNewline /\ IoKept
    \/ DeleteChar /\ IoKept
    \/ \E code \in Codes : MoveCursor(code) /\ IoKept
    \/ \E typed \in TypedQueries, end \in PromptEnds : CtrlW(typed, end)
    \/ \E typed \in TypedNames, end \in PromptEnds : CtrlO(typed, end)
    \/ CtrlX
    \/ TerminalError

\* main's loop with every key it dispatches.
SpecIO == InitIO /\ [][NextIO]_vars

\* The edit keys and Ctrl+O on a Document that may come from a file with
\* carriage returns.
NextCr ==
    \/ \E ch \in Chars : InsertChar(ch) /\ IoKept
    \/ InsertNewline /\ IoKept
    \/ DeleteChar /\ IoKept
    \/ \E code \in Codes : MoveCursor(code) /\ IoKept
    \/ \E typed \in TypedNames, end \in PromptEnds : CtrlO(typed, end)

SpecCr == InitCr /\ [][NextCr]_vars

\* ----------------------------------------------------------------- claims
\* C1: after any MoveCursor call (Up, Down, Left or Right) the cursor column
\* is at most the length of the line the cursor is now on.
C1_MoveKeepsColumnInLine ==
    (pc = "loop" /\ last.op = "MoveCursor" /\ last.code \in Arrows)
        => editor.cursor_x <= current_line_len(editor)

\* C2: in every state reached by the edit keys, with a fixed visible height
\* >= 1, the cursor row lies inside the viewport:
\* scroll_y <= row < scroll_y + visibleHeight.
C2_CursorInViewport ==
    (pc = "loop" /\ VisibleHeight >= 1)
        => /\ editor.scroll_y <= editor.cursor_y
           /\ editor.cursor_y < editor.scroll_y + VisibleHeight

\* C3: after an operation completes, a non-empty Document has the cursor row
\* on an existing line: 0 <= row <= len(Document) - 1.
C3_RowIndexesLine ==
    (pc = "loop" /\ last.op # "open" /\ Len(editor.content) > 0)
        => (0 <= editor.cursor_y /\ editor.cursor_y <= Len(editor.content) - 1)

\* C4: InsertChar never hits a bounds failure: whenever it is dispatched the
\* column is a valid offset of the line, and the insertion completes.
C4_InsertCharCompletes ==
    last.op = "InsertChar" => pc = "loop"

\* C5: DeleteChar is total: whenever it is dispatched, also at column 0 of a
\* row one past the last line, it completes without an out-of-bounds failure.
C5_DeleteCharCompletes ==
    last.op = "DeleteChar" => pc = "loop"

\* The Document and cursor are what they were before the pair's insert.
PairRestored ==
    /\ editor.content = pair.before.content
    /\ editor.cursor_y = pair.before.cursor_y
    /\ editor.cursor_x = pair.before.cursor_x

C7_JoinUndoesSplit ==
    (pair.stage = 2 /\ pair.op = "InsertNewline")
        => (pc = "loop" /\ PairRestored)

\* s holds pat at byte offset i.
OccursAt(s, pat, i) ==
    i + Len(pat) <= Len(s) /\ SubSeq(s, i + 1, i + Len(pat)) = pat

\* Some line of content holds pat.
Occurs(content, pat) ==
    \E y \in 1..Len(content) : \E i \in 0..Len(content[y]) :
        OccursAt(content[y], pat, i)

\* C8: Search(query) with query in at least one line leaves the cursor on the
\* first line that holds query, at the first offset it occurs at in that line.
C8_SearchFindsFirstMatch ==
    (last.op = "Search" /\ Occurs(editor.content, last.query))
        => /\ editor.cursor_y < Len(editor.content)
           /\ OccursAt(editor.content[editor.cursor_y + 1], last.query,
                       editor.cursor_x)
           /\ \A i \in 0..(editor.cursor_x - 1) :
                  ~OccursAt(editor.content[editor.cursor_y + 1], last.query, i)
           /\ \A y \in 1..editor.cursor_y :
                  \A i \in 0..Len(editor.content[y]) :
                      ~OccursAt(editor.content[y], last.query, i)

\* C8 witness: a Search that landed below the first line, past column 0.
C8_Witness ==
    /\ last.op = "Search" /\ Occurs(editor.content, last.query)
    /\ editor.cursor_y > 0
    /\ editor.cursor_x > 0

\* C9: Search(query) with query in no line changes nothing of the Editor but
\* search_query, and search_query is Some(query) after every Search.
C9_AbsentSearchKeepsState ==
    [][ last'.op = "Search"
          => /\ editor'.search_query = Some(last'.query)
             /\ ~Occurs(editor.content, last'.query)
                  => /\ editor'.cursor_y = editor.cursor_y
                     /\ editor'.cursor_x = editor.cursor_x
                     /\ editor'.scroll_y = editor.scroll_y
                     /\ editor'.content = editor.content
                     /\ editor'.modified = editor.modified ]_vars

\* C9 witness: a Search for a term no line holds, with the cursor away from
\* the top of a non-empty Document.
C9_Witness ==
    /\ last.op = "Search" /\ ~Occurs(editor.content, last.query)
    /\ editor.content # <<>>
    /\ editor.cursor_y > 0
    /\ editor.cursor_x > 0

\* C10: whenever the Document differs from the lines last loaded or
\* successfully saved, modified is true; and modified goes from true to false
\* only in a Save that succeeds.
C10_ModifiedTracksPersisted ==
    /\ [](editor.content # persisted => editor.modified)
    /\ [][ (editor.modified /\ ~editor'.modified)
              => (last'.op = "Save" /\ ~last'.err) ]_vars

\* C10 witness: the Document was saved under the new name and edited since.
C10_Witness ==
    /\ pc = "loop"
    /\ file.name = "new.txt"
    /\ editor.content # persisted
    /\ editor.modified

\* The line ends in a carriage return.
EndsWithCr(line) == line # <<>> /\ line[Len(line)] = "CR"

\* Loading the file the last Save wrote gives the Document that was saved.
SavedFileLoadsBack ==
    /\ file.name = editor.filename
    /\ read_lines(file.bytes) = editor.content

C12_CtrlXTerminates ==
    /\ [][ (last'.op \in { "Exit", "Save" } /\ last'.key = "CtrlX")
              => /\ last'.prompted = editor.modified
                 /\ (last'.op = "Save") = (editor.modified /\ last'.yes)
                 /\ last'.op = "Exit"
                      => (editor' = editor /\ file' = file)
                 /\ pc' # "loop"
                 /\ (last'.op = "Exit" \/ ~last'.err) => pc' = "exited" ]_vars
    /\ [][ pc = "loop" ]_vars

\* C12 witness: Ctrl+X on a modified Document, answered y: the Document was
\* saved and main exited.
C12_Witness ==
    /\ pc = "exited"
    /\ last.op = "Save" /\ last.key = "CtrlX" /\ ~last.err
    /\ last.prompted /\ last.yes
    /\ editor.content # <<>>
    /\ file.bytes = Some(write_lines(editor.content))

\* C13: when main has ended after Ctrl+X or after a Save (a Save that returned
\* an I/O error included), raw mode is off and the alternate screen is left.
C13_TerminalRestoredOnExit ==
    (pc \in { "exited", "io_error" } /\ last.op \in { "Exit", "Save" })
        => (~terminal.raw_mode /\ ~terminal.alternate_screen)

\* C14: MoveCursor(Left) at column 0 of a row r > 0 leaves the cursor on row
\* r - 1 at the column len(Document[r - 1]), the end of the line it moved to.
C14_LeftWrapsToLineEnd ==
    [][ (/\ last'.op = "MoveCursor" /\ last'.code = "Left"
         /\ editor.cursor_x = 0
         /\ editor.cursor_y > 0
         /\ editor.cursor_y <= Len(editor.content))
          => /\ editor'.cursor_y = editor.cursor_y - 1
             /\ editor'.cursor_x = Len(editor.content[editor.cursor_y]) ]_vars

\* C15: InsertNewline with the cursor row at or past the end of the Document
\* appends an empty line and leaves the cursor on it: row = len(Document) - 1,
\* column 0, and Document[row] empty.
C15_NewlinePastEndLandsOnLastLine ==
    (/\ pair.stage = 1 /\ pair.op = "InsertNewline" /\ pc = "loop"
     /\ pair.before.cursor_y >= Len(pair.before.content))
        => /\ editor.content = Append(pair.before.content, <<>>)
           /\ editor.cursor_y = Len(editor.content) - 1
           /\ editor.cursor_x = 0
           /\ editor.content[editor.cursor_y + 1] = <<>>

\* The cursor row of e is one of the visible_height rows from scroll_y on.
InViewport(e, visible_height) ==
    e.scroll_y <= e.cursor_y /\ e.cursor_y < e.scroll_y + visible_height

\* C16: a MoveCursor(Up) or MoveCursor(Down) with visible height >= 1 keeps a
\* cursor row that was inside the viewport inside it, changes scroll_y by at
\* most one, and changes it only when the new row would be outside the
\* viewport as it was.
C16_UpDownKeepViewport ==
    [][ (/\ last'.op = "MoveCursor" /\ last'.code \in { "Up", "Down" }
         /\ VisibleHeight >= 1)
          => /\ InViewport(editor, VisibleHeight)
                  => InViewport(editor', VisibleHeight)
             /\ editor'.scroll_y - editor.scroll_y \in { -1, 0, 1 }
             /\ editor'.scroll_y # editor.scroll_y
                  => ~InViewport([editor EXCEPT !.cursor_y = editor'.cursor_y],
                                 VisibleHeight) ]_vars

\* C16 witness: with two visible rows, a Down has moved the cursor to the
\* third line and the viewport has scrolled with it.
C16_Witness ==
    /\ last.op = "MoveCursor" /\ last.code = "Down"
    /\ VisibleHeight = 2
    /\ editor.cursor_y = 2
    /\ editor.scroll_y = 1

\* C17: the visible height main passes to MoveCursor is the number of rows
\* the renderer draws, so a cursor row that MoveCursor keeps inside the
\* viewport of an existing line is one of the rendered rows.
C17_CursorRowIsRendered ==
    pc = "loop"
        => /\ VisibleHeight = visible_lines
           /\ (/\ InViewport(editor, VisibleHeight)
               /\ editor.cursor_y < Len(editor.content))
                  => editor.cursor_y \in content_to_show(editor)

\* C18: in every state the draw closure sees, the cursor row is at or below
\* scroll_y, so cursor_y - scroll_y does not underflow.
C18_RowNotAboveScroll ==
    pc = "loop" => cursor_row_offset(editor) >= 0

\* C19 as stated: a Save that fails leaves the whole Editor as it was, the
\* filename included.
C19_FailedSaveKeepsEditor ==
    [][ (last'.op = "Save" /\ last'.err) => editor' = editor ]_vars

\* C19 amended: a Save that fails leaves the Document, the cursor, scroll_y,
\* modified and search_query as they were; the filename is the new name when
\* one was given, and is unchanged otherwise.
C19_FailedSaveKeepsAllButFilename ==
    [][ (last'.op = "Save" /\ last'.err)
          => /\ editor'.content = editor.content
             /\ editor'.cursor_x = editor.cursor_x
             /\ editor'.cursor_y = editor.cursor_y
             /\ editor'.scroll_y = editor.scroll_y
             /\ editor'.modified = editor.modified
             /\ editor'.search_query = editor.search_query
             /\ editor'.filename = IF last'.new_name = None
                                   THEN editor.filename
                                   ELSE last'.new_name[1] ]_vars

\* C19 witness: a Save as new.txt of a modified Document failed while writing
\* its line: modified is still set and the filename is the new one.
C19_Witness ==
    /\ pc = "io_error"
    /\ last.op = "Save" /\ last.err /\ last.key = "CtrlO"
    /\ editor.modified
    /\ editor.content # <<>>
    /\ editor.filename = "new.txt"
    /\ file = [name |-> "new.txt", bytes |-> Some(<<>>)]

\* C20: a "Save as:" or "Search for:" prompt that is cancelled with Esc or
\* confirmed with nothing typed runs no Save and no Search and leaves the
\* Editor and the file as they were; and a prompt that does lead to a Save or
\* a Search changes the Document and cursor only through that operation: a
\* Save changes neither, a Search leaves the Document alone.
C20_EmptyPromptChangesNothing ==
    [][ (/\ last'.op \in { "Prompt", "Save", "Search" }
         /\ last'.key \in { "CtrlO", "CtrlW" })
          => /\ last'.end = "Esc" => last'.op = "Prompt"
             /\ last'.op = "Save" => last'.new_name # Some("")
             /\ last'.op = "Search" => last'.query # <<>>
             /\ last'.op = "Prompt"
                  => /\ editor' = editor
                     /\ file' = file
                     /\ pc' = "loop"
             /\ editor'.content = editor.content
             /\ last'.op = "Save"
                  => /\ editor'.cursor_x = editor.cursor_x
                     /\ editor'.cursor_y = editor.cursor_y ]_vars

\* C20 witness: on a modified Document, not yet saved, a prompt was cancelled
\* with Esc.
C20_Witness ==
    /\ last.op = "Prompt" /\ last.end = "Esc"
    /\ pc = "loop"
    /\ editor.modified
    /\ editor.content # <<>>
    /\ editor.search_query = None
    /\ file.bytes = None

====
